---------------------------- MODULE Spec2Model ----------------------------
(***************************************************************************)
(* Model of multi_tool_agent/agent.py: the shopping-list tools             *)
(* (guardar_lista_compras .. mostrar_rota_visual), the ZebraAgent classes  *)
(* (StoreMap, RFIDReader, Cart, ZebraDevice, AgentAI) and run_session.     *)
(*                                                                         *)
(* Text is a sequence of one-character strings.  Coordinates are integers; *)
(* for the ZebraAgent part the unit is the decimetre, so that 0.5 m is 5.  *)
(* Euclidean distances are compared through their squares.                 *)
(***************************************************************************)
EXTENDS Integers, Sequences, FiniteSets

VARIABLES
    lista,      \* content of lista_compras.json, or NoFile
    produtos,   \* content of TestDataProductsLocation.json, or NoFile
    ret,        \* the value returned by the last tool call
    store,      \* StoreMap.products: the products in insertion order
    out,        \* the last call on the store or on an object that reads it
    pc,         \* run_session: the statement about to run
    falado,     \* run_session: the text heard by voice.listen
    route,      \* run_session: the route returned by plan_route
    idx,        \* run_session: index of the route stop being served
    pos,        \* run_session: position of the customer
    found,      \* run_session: result of the last zebra.sweep
    cart,       \* run_session: Cart.contents
    eventos,    \* run_session: what was done so far, in order
    laco,       \* the nearest-neighbour loop of a tool, statement by statement
    programa    \* which of the programs of the file runs: they share no state

vars == <<lista, produtos, ret, store, out, pc, falado, route, idx, pos, found, cart, eventos,
          laco, programa>>

toolVars == <<lista, produtos, ret>>
agentVars == <<store, out>>
sessionVars == <<pc, falado, route, idx, pos, found, cart, eventos>>

\* a file that does not exist, and a file holding c (os.path.exists, json.load)
NoFile == [existe |-> FALSE, conteudo |-> <<>>]

Ficheiro(c) == [existe |-> TRUE, conteudo |-> c]

-----------------------------------------------------------------------------
(* Bounds *)

\* longest text given to guardar_lista_compras
MaxText == 3
\* most records in TestDataProductsLocation.json
MaxProdutos == 3

-----------------------------------------------------------------------------
(* Text *)

\* str.lower on one character
LowerChar(c) ==
    CASE c = "A" -> "a"
      [] c = "B" -> "b"
      [] c = "L" -> "l"
      [] OTHER -> c

\* str.lower
Lower(s) == [i \in 1..Len(s) |-> LowerChar(s[i])]

\* Python's  needle in hay  on strings
Contains(hay, needle) ==
    \E i \in 0..(Len(hay) - Len(needle)) :
        SubSeq(hay, i + 1, i + Len(needle)) = needle

IsSpace(c) == c = " "

RECURSIVE LStrip(_)
LStrip(s) ==
    IF s # <<>> /\ IsSpace(Head(s)) THEN LStrip(Tail(s)) ELSE s

RECURSIVE RStrip(_)
RStrip(s) ==
    IF s # <<>> /\ IsSpace(s[Len(s)]) THEN RStrip(SubSeq(s, 1, Len(s) - 1)) ELSE s

\* str.strip
Strip(s) == RStrip(LStrip(s))

\* str.replace(old, new) for one-character old and new
ReplaceChar(s, old, new) == [i \in 1..Len(s) |-> IF s[i] = old THEN new ELSE s[i]]

\* str.split(): the maximal runs of non-whitespace characters
RECURSIVE SplitWs(_, _, _)
SplitWs(s, word, acc) ==
    IF s = <<>>
    THEN IF word = <<>> THEN acc ELSE Append(acc, word)
    ELSE IF IsSpace(Head(s))
         THEN SplitWs(Tail(s), <<>>, IF word = <<>> THEN acc ELSE Append(acc, word))
         ELSE SplitWs(Tail(s), Append(word, Head(s)), acc)

Split(s) == SplitWs(s, <<>>, <<>>)

-----------------------------------------------------------------------------
(* Geometry *)

\* square of math.dist / math.hypot between two points
distance_sq(a, b) ==
    (a[1] - b[1]) * (a[1] - b[1]) + (a[2] - b[2]) * (a[2] - b[2])

-----------------------------------------------------------------------------
(* The shopping-list tools (lines 14-326) *)

\* characters of the text the user gives to guardar_lista_compras
Chars == {"B", " ", ","}

Textos == UNION {[1..n -> Chars] : n \in 0..MaxText}

\* A record of TestDataProductsLocation.json.  corredor, secção, prateleira
\* and caixa are copied through unread and are left out.
Registo(nome, x, y) == [nome_produto |-> nome, coordenada_x |-> x, coordenada_y |-> y]

Registos ==
    { Registo(<<"B">>, 0, 0), Registo(<<"B">>, 3, 4), Registo(<<"b", "B">>, 3, 0),
      Registo(<<"B", "b">>, 3, 4) }

Catalogos == UNION {[1..n -> Registos] : n \in 0..MaxProdutos}

Ret(op, status) ==
    [op |-> op, status |-> status, itens |-> <<>>, resultados |-> <<>>,
     rota |-> <<>>, instrucoes |-> <<>>]

\* the text is not stripped before it is tested
TextoVazio_m(itens) == itens = <<>>

\* line 16: not itens.strip()
TextoVazio(itens) == Strip(itens) = <<>>

\* line 22
ListaItens(itens) ==
    LET palavras == Split(ReplaceChar(itens, ",", " "))
        Fica(item) == Strip(item) # <<>>
        ficam == SelectSeq(palavras, Fica)
    IN  [i \in 1..Len(ficam) |-> Lower(Strip(ficam[i]))]

guardar(itens) ==
    /\ IF TextoVazio(itens)
       THEN /\ ret' = Ret("guardar", "error")
            /\ UNCHANGED lista
       ELSE /\ lista' = Ficheiro(ListaItens(itens))
            /\ ret' = [Ret("guardar", "success") EXCEPT !.itens = ListaItens(itens)]
    /\ UNCHANGED <<produtos, agentVars, sessionVars, laco, programa>>

guardar_lista_compras == \E itens \in Textos : guardar(itens)

carregar_lista_compras ==
    /\ IF ~lista.existe
       THEN ret' = Ret("carregar", "error")
       ELSE ret' = [Ret("carregar", "success") EXCEPT !.itens = lista.conteudo]
    /\ UNCHANGED <<lista, produtos, agentVars, sessionVars, laco, programa>>

\* line 64: item.lower() in p["nome_produto"].lower()
Corresponde(item, p) == Contains(Lower(p.nome_produto), Lower(item))

Correspondencias(item, prods) ==
    LET Test(p) == Corresponde(item, p) IN SelectSeq(prods, Test)

Encontrado(p) ==
    [produto |-> p.nome_produto, coordenada_x |-> p.coordenada_x,
     coordenada_y |-> p.coordenada_y]

NaoEncontrado(item) == [produto |-> item, erro |-> "nao encontrado"]

\* an item that matches nothing is left out of the results
RECURSIVE Resultados_m(_, _)
Resultados_m(lista_itens, prods) ==
    IF lista_itens = <<>> THEN <<>>
    ELSE LET c == Correspondencias(Head(lista_itens), prods)
         IN  [i \in 1..Len(c) |-> Encontrado(c[i])] \o Resultados_m(Tail(lista_itens), prods)

\* lines 62-80
RECURSIVE Resultados(_, _)
Resultados(lista_itens, prods) ==
    IF lista_itens = <<>> THEN <<>>
    ELSE LET item == Head(lista_itens)
             c == Correspondencias(item, prods)
         IN  (IF c # <<>>
              THEN [i \in 1..Len(c) |-> Encontrado(c[i])]
              ELSE <<NaoEncontrado(item)>>)
             \o Resultados(Tail(lista_itens), prods)

\* lines 48-96 as a value
ObterLocalizacoes ==
    IF ~lista.existe \/ ~produtos.existe
    THEN Ret("obter", "error")
    ELSE [Ret("obter", "success") EXCEPT
             !.resultados = Resultados(lista.conteudo, produtos.conteudo)]

obter_localizacoes_lista ==
    /\ ret' = ObterLocalizacoes
    /\ UNCHANGED <<lista, produtos, agentVars, sessionVars, laco, programa>>

\* the first product not yet visited, near or far
MaisProximo_m(proximos, pts, atual) == proximos[1]

\* min(proximos, key = distance to pts[atual]): the first of the nearest
MaisProximo(proximos, pts, atual) ==
    LET Melhor(k) ==
            /\ \A j \in 1..Len(proximos) :
                 distance_sq(pts[atual], pts[proximos[k]]) <= distance_sq(pts[atual], pts[proximos[j]])
            /\ \A j \in 1..(k - 1) :
                 distance_sq(pts[atual], pts[proximos[j]]) > distance_sq(pts[atual], pts[proximos[k]])
    IN  proximos[CHOOSE k \in 1..Len(proximos) : Melhor(k)]

\* the visited names are not filtered out
Proximos_m(nomes, visitados) == [i \in 1..Len(nomes) |-> i]

\* [i for i in range if nomes[i] not in visitados]
Proximos(nomes, visitados) ==
    LET Livre(i) == nomes[i] \notin visitados
    IN  SelectSeq([i \in 1..Len(nomes) |-> i], Livre)

\* lines 121-138 and 186-199: the while loop, on the indices of the list
RECURSIVE Vizinhos(_, _, _, _, _)
Vizinhos(nomes, pts, rota, visitados, atual) ==
    IF Cardinality(visitados) < Len(nomes)
    THEN LET proximos == Proximos(nomes, visitados)
         IN  IF proximos = <<>> THEN rota
             ELSE LET proximo == MaisProximo(proximos, pts, atual)
                  IN  Vizinhos(nomes, pts, Append(rota, proximo),
                               visitados \cup {nomes[proximo]}, proximo)
    ELSE rota

\* lines 115-138: the route, as indices into a non-empty list
RotaIndices(nomes, pts) == Vizinhos(nomes, pts, <<1>>, {nomes[1]}, 1)

\* lines 106-109
ComCoordenadas(resultados) ==
    LET Tem(p) == /\ "erro" \notin DOMAIN p
                  /\ "coordenada_x" \in DOMAIN p
                  /\ "coordenada_y" \in DOMAIN p
    IN  SelectSeq(resultados, Tem)

Pontos(recs) == [i \in 1..Len(recs) |-> <<recs[i].coordenada_x, recs[i].coordenada_y>>]

\* lines 114-138
RotaGerar(prods) ==
    LET r == RotaIndices([i \in 1..Len(prods) |-> prods[i].produto], Pontos(prods))
    IN  [k \in 1..Len(r) |-> prods[r[k]]]

\* an empty route given back as a success
SemProdutos_m == Ret("gerar", "success")

\* lines 111-112
SemProdutos == Ret("gerar", "error")

gerar_rota_otimizada ==
    /\ LET localizacoes == ObterLocalizacoes
           prods == ComCoordenadas(localizacoes.resultados)
       IN  IF localizacoes.status = "error"
           THEN ret' = [localizacoes EXCEPT !.op = "gerar"]
           ELSE IF prods = <<>>
                THEN ret' = SemProdutos
                ELSE ret' = [Ret("gerar", "success") EXCEPT !.rota = RotaGerar(prods)]
    /\ UNCHANGED <<lista, produtos, agentVars, sessionVars, laco, programa>>

\* lines 172-175
Selecionados(lista_itens, prods) ==
    LET Test(p) == \E i \in 1..Len(lista_itens) :
                       Contains(Lower(p.nome_produto), Strip(Lower(lista_itens[i])))
    IN  SelectSeq(prods, Test)

\* lines 180-199
RotaMostrar(sel) ==
    LET r == RotaIndices([i \in 1..Len(sel) |-> sel[i].nome_produto], Pontos(sel))
    IN  [k \in 1..Len(r) |-> sel[r[k]]]

\* lines 208-216: the sector of atan2(dy, dx) in degrees
Direcao(dx, dy) ==
    IF dx >= 0 /\ -dx <= dy /\ dy <= dx THEN "siga em frente"
    ELSE IF dy > 0 /\ -dy <= dx /\ dx < dy THEN "vire a esquerda"
    ELSE IF dy < 0 /\ dy <= dx /\ dx < -dy THEN "vire a direita"
    ELSE "inverta a direcao"

\* lines 202-217
Instrucoes(rota) ==
    [i \in 1..(Len(rota) - 1) |->
        [direcao |-> Direcao(rota[i + 1].coordenada_x - rota[i].coordenada_x,
                             rota[i + 1].coordenada_y - rota[i].coordenada_y),
         destino |-> rota[i + 1].nome_produto]]

mostrar_rota_visual ==
    /\ IF ~lista.existe \/ ~produtos.existe
       THEN ret' = Ret("mostrar", "error")
       ELSE LET sel == Selecionados(lista.conteudo, produtos.conteudo)
            IN  IF sel = <<>>
                THEN ret' = Ret("mostrar", "error")
                ELSE ret' = [Ret("mostrar", "success") EXCEPT
                                !.rota = RotaMostrar(sel),
                                !.instrucoes = Instrucoes(RotaMostrar(sel))]
    /\ UNCHANGED <<lista, produtos, agentVars, sessionVars, laco, programa>>

\* values of the variables a specification does not use
ToolsIdle == lista = NoFile /\ produtos = NoFile /\ ret = Ret("none", "none")

AgentIdle == store = <<>> /\ out = [op |-> "none"]

LacoIdle == laco = [pc |-> "none"]

SessionIdle ==
    /\ pc = "idle" /\ falado = <<>> /\ route = <<>> /\ idx = 0
    /\ pos = <<0, 0>> /\ found = FALSE /\ cart = <<>> /\ eventos = <<>>

InitTools ==
    /\ lista = NoFile
    /\ produtos \in {Ficheiro(c) : c \in Catalogos} \cup {NoFile}
    /\ ret = Ret("none", "none")
    /\ AgentIdle
    /\ SessionIdle
    /\ LacoIdle
    /\ programa = "tools"

NextTools ==
    \/ guardar_lista_compras
    \/ carregar_lista_compras
    \/ obter_localizacoes_lista
    \/ gerar_rota_otimizada
    \/ mostrar_rota_visual

SpecTools == InitTools /\ [][NextTools]_vars

-----------------------------------------------------------------------------
(* The nearest-neighbour loop of gerar_rota_otimizada (lines 115-138) and  *)
(* of mostrar_rota_visual (lines 181-199), one statement at a time.  The   *)
(* two loops differ by the name of the list (produtos, selecionados) and   *)
(* of the key (produto, nome_produto) only.  The route and atual are kept  *)
(* as indices into the list.                                               *)

\* the loop runs over lists of 1 to MaxLaco matched products
MaxLaco == 3

\* the non-empty lists the tools hand to the loop: records of the catalog,
\* some of them with the same name
Entradas ==
    UNION {[1..n -> Registos] : n \in 1..MaxLaco}

LacoNomes == [i \in 1..Len(laco.produtos) |-> laco.produtos[i].nome_produto]

LacoPontos == Pontos(laco.produtos)

\* lines 115-119: rota = [], visitados = set(), atual = produtos[0], ...
LoopStart ==
    /\ laco.pc = "start"
    /\ laco' = [laco EXCEPT !.pc = "while",
                            !.rota = <<1>>,
                            !.visitados = {LacoNomes[1]},
                            !.atual = 1]
    /\ UNCHANGED <<toolVars, agentVars, sessionVars, programa>>

\* line 121: while len(visitados) < len(produtos)
Continua == Cardinality(laco.visitados) < Len(laco.produtos)

\* line 121, the test fails: the loop is left
LoopExit ==
    /\ laco.pc = "while"
    /\ ~Continua
    /\ laco' = [laco EXCEPT !.pc = "done"]
    /\ UNCHANGED <<toolVars, agentVars, sessionVars, programa>>

\* lines 122-125: if not proximos: break
LoopBreak ==
    /\ laco.pc = "while"
    /\ Continua
    /\ Proximos(LacoNomes, laco.visitados) = <<>>
    /\ laco' = [laco EXCEPT !.pc = "done"]
    /\ UNCHANGED <<toolVars, agentVars, sessionVars, programa>>

\* lines 122-138: one iteration that appends the nearest product
LoopIter ==
    /\ laco.pc = "while"
    /\ Continua
    /\ LET proximos == Proximos(LacoNomes, laco.visitados)
       IN  /\ proximos # <<>>
           /\ LET proximo == MaisProximo(proximos, LacoPontos, laco.atual)
              IN  laco' = [laco EXCEPT !.rota = Append(@, proximo),
                                      !.visitados = @ \cup {LacoNomes[proximo]},
                                      !.atual = proximo]
    /\ UNCHANGED <<toolVars, agentVars, sessionVars, programa>>

InitLaco ==
    /\ laco \in {[pc |-> "start", produtos |-> e, rota |-> <<>>,
                   visitados |-> {}, atual |-> 0] : e \in Entradas}
    /\ ToolsIdle
    /\ AgentIdle
    /\ SessionIdle
    /\ programa = "laco"

NextLaco ==
    \/ LoopStart
    \/ LoopExit
    \/ LoopBreak
    \/ LoopIter

\* the interpreter runs the next statement of the loop as long as there is one
SpecLaco == InitLaco /\ [][NextLaco]_vars /\ WF_vars(NextLaco)

-----------------------------------------------------------------------------
(* utils.py (lines 397-416) *)

Abs(x) == IF x < 0 THEN -x ELSE x

Max(a, b) == IF a >= b THEN a ELSE b

\* round(sqrt(num/den) / 0.75), searched upwards from k: x < k + 1/2 is
\* 64 num < 9 den (2k+1)^2, and x = k + 1/2 rounds to the even neighbour
RECURSIVE RoundFrom(_, _, _)
RoundFrom(k, num, den) ==
    IF 64 * num < 9 * den * (2 * k + 1) * (2 * k + 1) THEN k
    ELSE IF 64 * num = 9 * den * (2 * k + 1) * (2 * k + 1)
         THEN (IF k % 2 = 0 THEN k ELSE k + 1)
         ELSE RoundFrom(k + 1, num, den)

\* the result is not raised to 1 (max(1, ...) left out)
meters_to_steps_m(num, den) == RoundFrom(0, num, den)

\* meters_to_steps(meters) with the default step of 0.75 m, for
\* meters = sqrt(num/den)
meters_to_steps(num, den) == Max(1, RoundFrom(0, num, den))

\* the test of a vector close to zero (line 406) is left out
direction_from_vector_m(dx, dy) ==
    IF dx >= 0 /\ -dx <= dy /\ dy <= dx THEN "direita"
    ELSE IF dy > 0 /\ -dy <= dx /\ dx < dy THEN "frente"
    ELSE IF dx < 0 /\ dx < dy /\ dy < -dx THEN "esquerda"
    ELSE "tras"

\* direction_from_vector, dx and dy in decimetres (0.3 m is 3)
direction_from_vector(dx, dy) ==
    IF Abs(dx) < 3 /\ Abs(dy) < 3 THEN "em frente"
    ELSE IF dx >= 0 /\ -dx <= dy /\ dy <= dx THEN "direita"
    ELSE IF dy > 0 /\ -dy <= dx /\ dx < dy THEN "frente"
    ELSE IF dx < 0 /\ dx < dy /\ dy < -dx THEN "esquerda"
    ELSE "tras"

-----------------------------------------------------------------------------
(* sensors.py (lines 426-495) *)

Product(uid, name, position, shelf_level) ==
    [uid |-> uid, name |-> name, position |-> position, shelf_level |-> shelf_level]

\* StoreMap.add_product: products[uid] = Product(...).  A dict keeps the
\* place of a key it already holds.
AddProduct(products, p) ==
    IF \E i \in 1..Len(products) : products[i].uid = p.uid
    THEN [i \in 1..Len(products) |-> IF products[i].uid = p.uid THEN p ELSE products[i]]
    ELSE Append(products, p)

\* the name of the product is compared as it is written
MesmoNome_m(p, name) == p.name = Lower(name)

\* line 442
MesmoNome(p, name) == Lower(p.name) = Lower(name)

\* StoreMap.find_by_name: <<p>> for the product returned, <<>> for None
find_by_name(products, name) ==
    IF \E i \in 1..Len(products) : MesmoNome(products[i], name)
    THEN <<products[CHOOSE i \in 1..Len(products) :
                 /\ MesmoNome(products[i], name)
                 /\ \A j \in 1..(i - 1) : ~MesmoNome(products[j], name)]>>
    ELSE <<>>

\* the comparison with the noise probability is turned round
Lido_m(d2, range, draw, noise_prob) == d2 <= range * range /\ draw < noise_prob

\* line 469: d <= self.range and random.random() > self.noise_prob
Lido(d2, range, draw, noise_prob) == d2 <= range * range /\ draw > noise_prob

\* RFIDReader.scan: draws[i] is the value random.random() gives for product i
Scan(products, range, noise_prob, position, draws) ==
    LET Le(i) == Lido(distance_sq(position, products[i].position), range,
                      draws[i], noise_prob)
        lidos == SelectSeq([i \in 1..Len(products) |-> i], Le)
    IN  [k \in 1..Len(lidos) |->
            [uid |-> products[lidos[k]].uid,
             d2 |-> distance_sq(position, products[lidos[k]].position)]]

\* the cart keeps the last product only
CartAdd_m(contents, uid) == <<uid>>

\* Cart.add
CartAdd(contents, uid) == Append(contents, uid)

\* the height of the device is not looked at
Sweep_m(sensitivity, product, device_pos, device_height) ==
    distance_sq(product.position, device_pos) <= sensitivity * sensitivity

\* ZebraDevice.sweep
Sweep(sensitivity, product, device_pos, device_height) ==
    IF /\ distance_sq(product.position, device_pos) <= sensitivity * sensitivity
       /\ product.shelf_level = device_height
    THEN TRUE
    ELSE FALSE

-----------------------------------------------------------------------------
(* agent.py (lines 504-544) *)

\* lines 521-527: the products found, in the order of the items
RECURSIVE Matched(_, _)
Matched(products, items) ==
    IF items = <<>> THEN <<>>
    ELSE find_by_name(products, Head(items)) \o Matched(products, Tail(items))

\* line 527: the items a warning is printed for
Avisos(products, items) ==
    LET Falta(it) == find_by_name(products, it) = <<>> IN SelectSeq(items, Falta)

\* list.sort(key = distance to current_pos) is stable: p goes after the
\* elements that are not farther
RECURSIVE Insert(_, _, _)
Insert(sorted, p, current_pos) ==
    IF sorted = <<>> THEN <<p>>
    ELSE IF distance_sq(current_pos, Head(sorted).position) <= distance_sq(current_pos, p.position)
         THEN <<Head(sorted)>> \o Insert(Tail(sorted), p, current_pos)
         ELSE <<p>> \o sorted

RECURSIVE SortByDistance(_, _)
SortByDistance(ps, current_pos) ==
    IF ps = <<>> THEN <<>>
    ELSE Insert(SortByDistance(SubSeq(ps, 1, Len(ps) - 1), current_pos),
                ps[Len(ps)], current_pos)

\* lines 531-537: each product with the steps from the previous position
WithSteps(ps, current_pos) ==
    [i \in 1..Len(ps) |->
        [product |-> ps[i],
         steps |-> meters_to_steps(
                       distance_sq(IF i = 1 THEN current_pos ELSE ps[i - 1].position,
                                   ps[i].position), 100)]]

\* AgentAI.plan_route
PlanRoute(products, current_pos, items) ==
    WithSteps(SortByDistance(Matched(products, items), current_pos), current_pos)

\* AgentAI.give_directions
GiveDirections(from_pos, to_product) ==
    [steps |-> meters_to_steps(distance_sq(from_pos, to_product.position), 100),
     dir |-> direction_from_vector(to_product.position[1] - from_pos[1],
                                   to_product.position[2] - from_pos[2])]

-----------------------------------------------------------------------------
(* Calls on a store that add_product builds *)

\* the add_product calls made
ProdArgs ==
    { Product("t1", <<"B", "b">>, <<20, 0>>, 1),
      Product("t2", <<"b", "a">>, <<-30, 0>>, 0),
      Product("t3", <<"A">>, <<40, 10>>, 2),
      Product("t2", <<"b", "B">>, <<0, 30>>, 1) }

\* the item texts given to plan_route, and the names looked up
ItemTexts == {<<"b", "b">>, <<"B", "A">>, <<"a">>}

Consultas == ItemTexts \cup {<<"b">>}

\* most items in a call of plan_route
MaxItens == 3

ItemLists == UNION {[1..n -> ItemTexts] : n \in 0..MaxItens}

StartPositions == {<<0, 0>>}

\* reader ranges (2.0 m by default, 10 m covers the store), noise
\* probabilities and values of random.random(), the last two in twentieths
Ranges == {20, 100}

NoiseProbs == {0, 1, 20}

Draws == {0, 10}

\* zebra sensitivities (0.5 m by default, 0.6 m in run_session), offsets of
\* the device from the product, and heights
Sensitivities == {5, 6}

Offsets == {<<0, 0>>, <<3, 4>>, <<6, 0>>}

Heights == 0..2

add_product ==
    /\ \E p \in ProdArgs :
         /\ store' = AddProduct(store, p)
         /\ out' = [op |-> "add_product", product |-> p]
    /\ UNCHANGED <<toolVars, sessionVars, laco, programa>>

FindByNameCall ==
    /\ \E name \in Consultas :
         out' = [op |-> "find_by_name", name |-> name, val |-> find_by_name(store, name)]
    /\ UNCHANGED <<store, toolVars, sessionVars, laco, programa>>

plan_route ==
    /\ \E current_pos \in StartPositions, items \in ItemLists :
         out' = [op |-> "plan_route", current_pos |-> current_pos, items |-> items,
                 matched |-> Matched(store, items), avisos |-> Avisos(store, items),
                 val |-> PlanRoute(store, current_pos, items)]
    /\ UNCHANGED <<store, toolVars, sessionVars, laco, programa>>

scan ==
    /\ \E range \in Ranges, noise_prob \in NoiseProbs, position \in StartPositions,
          draws \in [1..Len(store) -> Draws] :
         out' = [op |-> "scan", range |-> range, noise_prob |-> noise_prob,
                 position |-> position, draws |-> draws,
                 val |-> Scan(store, range, noise_prob, position, draws)]
    /\ UNCHANGED <<store, toolVars, sessionVars, laco, programa>>

sweep ==
    /\ \E sensitivity \in Sensitivities, i \in 1..Len(store), off \in Offsets,
          device_height \in Heights :
         LET device_pos == <<store[i].position[1] + off[1], store[i].position[2] + off[2]>>
         IN  out' = [op |-> "sweep", sensitivity |-> sensitivity, product |-> store[i],
                     device_pos |-> device_pos, device_height |-> device_height,
                     val |-> Sweep(sensitivity, store[i], device_pos, device_height)]
    /\ UNCHANGED <<store, toolVars, sessionVars, laco, programa>>

InitAgent ==
    /\ store = <<>>
    /\ out = [op |-> "none"]
    /\ ToolsIdle
    /\ SessionIdle
    /\ LacoIdle
    /\ programa = "agent"

NextAgent ==
    \/ add_product
    \/ FindByNameCall
    \/ plan_route

SpecAgent == InitAgent /\ [][NextAgent]_vars

InitSensors ==
    /\ store = <<>>
    /\ out = [op |-> "none"]
    /\ ToolsIdle
    /\ SessionIdle
    /\ LacoIdle
    /\ programa = "sensors"

NextSensors ==
    \/ add_product
    \/ scan
    \/ sweep

SpecSensors == InitSensors /\ [][NextSensors]_vars

-----------------------------------------------------------------------------
(* Calls of the pure functions: direction_from_vector, the classifier of   *)
(* mostrar_rota_visual, meters_to_steps                                    *)

\* the components of a vector go from -MaxDelta to MaxDelta decimetres
MaxDelta == 5

Deltas == (0 - MaxDelta)..MaxDelta

\* direction_from_vector(dx, dy)
direction_from_vector_call ==
    /\ \E dx \in Deltas, dy \in Deltas :
          out' = [op |-> "direction_from_vector", dx |-> dx, dy |-> dy,
                  val |-> direction_from_vector(dx, dy)]
    /\ UNCHANGED <<store, toolVars, sessionVars, laco, programa>>

\* lines 205-215 of mostrar_rota_visual for one pair of stops
direcao_call ==
    /\ \E dx \in Deltas, dy \in Deltas :
          out' = [op |-> "direcao", dx |-> dx, dy |-> dy, val |-> Direcao(dx, dy)]
    /\ UNCHANGED <<store, toolVars, sessionVars, laco, programa>>

\* lengths go from 0 to MaxMetros eighths of a metre: k + 1/2 steps of
\* 0.75 m is (6 k + 3) / 8 m
MaxMetros == 24

Metros == 0..MaxMetros

\* meters_to_steps(m1 / 8) and meters_to_steps(m2 / 8)
meters_to_steps_call ==
    /\ \E m1 \in Metros, m2 \in Metros :
          out' = [op |-> "meters_to_steps", m1 |-> m1, m2 |-> m2,
                  s1 |-> meters_to_steps(m1 * m1, 64),
                  s2 |-> meters_to_steps(m2 * m2, 64)]
    /\ UNCHANGED <<store, toolVars, sessionVars, laco, programa>>

InitUtils ==
    /\ ToolsIdle
    /\ AgentIdle
    /\ SessionIdle
    /\ LacoIdle
    /\ programa = "utils"

NextUtils ==
    \/ direction_from_vector_call
    \/ direcao_call
    \/ meters_to_steps_call

SpecUtils == InitUtils /\ [][NextUtils]_vars


\* the tools and the planner, one of them in a run
Init == InitTools \/ InitAgent

Next ==
    \/ programa = "tools" /\ NextTools
    \/ programa = "agent" /\ NextAgent

Spec == Init /\ [][Next]_vars

-----------------------------------------------------------------------------
(* main.py (lines 599-645) *)

Leite == <<"l", "e", "i", "t", "e">>
Ovos == <<"o", "v", "o", "s">>
Cafe == <<"c", "a", "f", "e">>
Acucar == <<"a", "c", "u", "c", "a", "r">>

\* build_demo_store, positions in decimetres
build_demo_store ==
    AddProduct(AddProduct(AddProduct(AddProduct(<<>>,
        Product("tag001", Leite, <<20, 10>>, 1)),
        Product("tag002", Ovos, <<55, 12>>, 0)),
        Product("tag003", Cafe, <<30, 40>>, 2)),
        Product("tag004", Acucar, <<60, 35>>, 1))

\* ZebraDevice(sensitivity=0.6), in decimetres
SessionSensitivity == 6

\* text.replace(' e ', ',')
RECURSIVE ReplaceE(_)
ReplaceE(s) ==
    IF s = <<>> THEN <<>>
    ELSE IF Len(s) >= 3 /\ SubSeq(s, 1, 3) = <<" ", "e", " ">>
         THEN <<",">> \o ReplaceE(SubSeq(s, 4, Len(s)))
         ELSE <<Head(s)>> \o ReplaceE(Tail(s))

\* str.split(','), empty pieces included
RECURSIVE SplitComma(_, _, _)
SplitComma(s, piece, acc) ==
    IF s = <<>> THEN Append(acc, piece)
    ELSE IF Head(s) = ","
         THEN SplitComma(Tail(s), <<>>, Append(acc, piece))
         ELSE SplitComma(Tail(s), Append(piece, Head(s)), acc)

\* AgentAI.parse_shopping_list
parse_shopping_list(text) ==
    LET bits == SplitComma(ReplaceE(text), <<>>, <<>>)
        stripped == [i \in 1..Len(bits) |-> Strip(bits[i])]
        Fica(b) == b # <<>>
    IN  SelectSeq(stripped, Fica)

\* most words in what the customer says
MaxPalavras == 3

\* the words said and what joins them
Palavras == {Leite, Ovos, Cafe, Acucar, <<"L", "e", "i", "t", "e">>, <<"p", "a", "o">>}

Juncoes == {<<",">>, <<" ", "e", " ">>}

RECURSIVE FalasDe(_)
FalasDe(n) ==
    IF n = 0 THEN {<<>>}
    ELSE IF n = 1 THEN Palavras
    ELSE {f \o j \o w : f \in FalasDe(n - 1), j \in Juncoes, w \in Palavras}

Falas == UNION {FalasDe(n) : n \in 0..MaxPalavras}

Evento(ev, p, val) == [ev |-> ev, uid |-> p.uid, val |-> val]

\* line 621: voice.listen
Listen ==
    /\ pc = "listen"
    /\ \E text \in Falas : falado' = text
    /\ pc' = "plan"
    /\ UNCHANGED <<route, idx, pos, found, cart, eventos, toolVars, agentVars, laco, programa>>

\* lines 622-626: parse_shopping_list, plan_route, the head of the for loop
Plan ==
    /\ pc = "plan"
    /\ route' = PlanRoute(build_demo_store, pos, parse_shopping_list(falado))
    /\ idx' = 1
    /\ pc' = IF route' = <<>> THEN "done" ELSE "directions"
    /\ UNCHANGED <<falado, pos, found, cart, eventos, toolVars, agentVars, laco, programa>>

\* lines 628-629
Directions ==
    /\ pc = "directions"
    /\ eventos' = Append(eventos, Evento("directions", route[idx].product,
                                         GiveDirections(pos, route[idx].product)))
    /\ pc' = "move"
    /\ UNCHANGED <<falado, route, idx, pos, found, cart, toolVars, agentVars, laco, programa>>

\* line 632
Move ==
    /\ pc = "move"
    /\ pos' = route[idx].product.position
    /\ eventos' = Append(eventos, Evento("move", route[idx].product, pos'))
    /\ pc' = "sweep"
    /\ UNCHANGED <<falado, route, idx, found, cart, toolVars, agentVars, laco, programa>>

\* lines 635-637
SweepStep ==
    /\ pc = "sweep"
    /\ found' = Sweep(SessionSensitivity, route[idx].product, pos,
                      route[idx].product.shelf_level)
    /\ eventos' = Append(eventos, Evento("sweep", route[idx].product, found'))
    /\ pc' = "cart"
    /\ UNCHANGED <<falado, route, idx, pos, cart, toolVars, agentVars, laco, programa>>

\* the loop goes on with the next stop, or ends (line 645)
NextStop(i, r) == IF i < Len(r) THEN "directions" ELSE "done"

\* lines 638-643, and the step of the for loop
CartStep ==
    /\ pc = "cart"
    /\ IF found
       THEN /\ cart' = CartAdd(cart, route[idx].product.uid)
            /\ eventos' = Append(eventos, Evento("add", route[idx].product, Len(cart')))
       ELSE /\ cart' = cart
            /\ eventos' = Append(eventos, Evento("nothing", route[idx].product, Len(cart)))
    /\ pc' = NextStop(idx, route)
    /\ idx' = IF idx < Len(route) THEN idx + 1 ELSE idx
    /\ UNCHANGED <<falado, route, pos, found, toolVars, agentVars, laco, programa>>

InitSession ==
    /\ pc = "listen"
    /\ falado = <<>>
    /\ route = <<>>
    /\ idx = 0
    /\ pos = <<0, 0>>
    /\ found = FALSE
    /\ cart = <<>>
    /\ eventos = <<>>
    /\ ToolsIdle
    /\ AgentIdle
    /\ LacoIdle
    /\ programa = "session"

NextSession ==
    \/ Listen
    \/ Plan
    \/ Directions
    \/ Move
    \/ SweepStep
    \/ CartStep

SpecSession == InitSession /\ [][NextSession]_vars

-----------------------------------------------------------------------------
(* Properties *)

Distintos(seq) == \A i, j \in DOMAIN seq : i # j => seq[i] # seq[j]

Count(x, seq) == Cardinality({i \in DOMAIN seq : seq[i] = x})

Permutacao(a, b) ==
    /\ Len(a) = Len(b)
    /\ \A i \in DOMAIN b : Count(b[i], a) = Count(b[i], b)

Membros(seq) == {seq[i] : i \in DOMAIN seq}

\* the list the loop of gerar_rota_otimizada is given (lines 106-109)
EntradaGerar == ComCoordenadas(Resultados(lista.conteudo, produtos.conteudo))

\* the list the loop of mostrar_rota_visual is given (lines 172-175)
EntradaMostrar == Selecionados(lista.conteudo, produtos.conteudo)

NomesGerar(recs) == [i \in DOMAIN recs |-> recs[i].produto]

NomesMostrar(recs) == [i \in DOMAIN recs |-> recs[i].nome_produto]

Uids(ps) == [i \in DOMAIN ps |-> ps[i].uid]

\* the products of a route of plan_route
Stops(r) == [i \in DOMAIN r |-> r[i].product]

GerarFeito == ret.op = "gerar" /\ ret.status = "success"

MostrarFeito == ret.op = "mostrar" /\ ret.status = "success"

PlanFeito == out.op = "plan_route"

\* C1 as claimed: a route is a permutation of the distinct positioned
\* products it was computed from (distinct records of the catalog for the
\* two loops, distinct uids for plan_route): as many stops as products, none
\* twice, none left out.
C1_Original ==
    /\ GerarFeito /\ Distintos(EntradaGerar)
         => Permutacao(ret.rota, EntradaGerar)
    /\ MostrarFeito /\ Distintos(EntradaMostrar)
         => Permutacao(ret.rota, EntradaMostrar)
    /\ PlanFeito /\ out.matched # <<>> /\ Distintos(Uids(out.matched))
         => Permutacao(Stops(out.val), out.matched)

\* every stop after the first is a nearest product among those whose name
\* was not yet visited
VizinhoMaisProximo(rnomes, rpts, enomes, epts) ==
    \A i \in 1..(Len(rnomes) - 1) :
        \A j \in DOMAIN enomes :
            enomes[j] \notin {rnomes[k] : k \in 1..i}
                => distance_sq(rpts[i], epts[j]) >= distance_sq(rpts[i], rpts[i + 1])

\* the route of plan_route taken as nearest-neighbour: the first stop is
\* nearest to the start, each next stop nearest among the stops still to come
PlanVizinho ==
    LET ps == Stops(out.val)
    IN  /\ \A j \in DOMAIN ps :
             distance_sq(out.current_pos, ps[1].position)
                 <= distance_sq(out.current_pos, ps[j].position)
        /\ \A i \in 1..(Len(ps) - 1) : \A j \in (i + 1)..Len(ps) :
             distance_sq(ps[i].position, ps[j].position)
                 >= distance_sq(ps[i].position, ps[i + 1].position)

\* C2 as claimed: nearest-neighbour at every step, in the two loops and in
\* plan_route.
C2_Original ==
    /\ GerarFeito => VizinhoMaisProximo(NomesGerar(ret.rota), Pontos(ret.rota),
                                        NomesGerar(EntradaGerar), Pontos(EntradaGerar))
    /\ MostrarFeito => VizinhoMaisProximo(NomesMostrar(ret.rota), Pontos(ret.rota),
                                          NomesMostrar(EntradaMostrar), Pontos(EntradaMostrar))
    /\ PlanFeito /\ out.val # <<>> => PlanVizinho

\* C2 as amended: the two loops start at the first product of their list and
\* then go nearest-neighbour; plan_route orders the stops by their distance
\* from the starting position, so its first stop is nearest to the start.
C2_Amended ==
    /\ GerarFeito =>
         /\ ret.rota[1] = EntradaGerar[1]
         /\ VizinhoMaisProximo(NomesGerar(ret.rota), Pontos(ret.rota),
                               NomesGerar(EntradaGerar), Pontos(EntradaGerar))
    /\ MostrarFeito =>
         /\ ret.rota[1] = EntradaMostrar[1]
         /\ VizinhoMaisProximo(NomesMostrar(ret.rota), Pontos(ret.rota),
                               NomesMostrar(EntradaMostrar), Pontos(EntradaMostrar))
    /\ PlanFeito =>
         \A i \in 1..(Len(out.val) - 1) :
             distance_sq(out.current_pos, out.val[i].product.position)
                 <= distance_sq(out.current_pos, out.val[i + 1].product.position)

\* a loop route whose second stop is not the second product of the list:
\* the nearest one was taken
C2_Witness ==
    /\ MostrarFeito
    /\ Len(ret.rota) = 3
    /\ ret.rota[2] = EntradaMostrar[3]
    /\ distance_sq(Pontos(ret.rota)[1], Pontos(ret.rota)[2])
         < distance_sq(Pontos(ret.rota)[1], Pontos(ret.rota)[3])

\* C3 as claimed: in every route each product is there once at most, is a
\* matched product, and the route is no longer than the list of matches.
C3_Original ==
    /\ GerarFeito =>
         /\ Distintos(NomesGerar(ret.rota))
         /\ Membros(ret.rota) \subseteq Membros(EntradaGerar)
         /\ Len(ret.rota) <= Len(EntradaGerar)
    /\ MostrarFeito =>
         /\ Distintos(NomesMostrar(ret.rota))
         /\ Membros(ret.rota) \subseteq Membros(EntradaMostrar)
         /\ Len(ret.rota) <= Len(EntradaMostrar)
    /\ PlanFeito =>
         /\ Distintos(Uids(Stops(out.val)))
         /\ Membros(Stops(out.val)) \subseteq Membros(out.matched)
         /\ Len(out.val) <= Len(out.matched)

\* the catalog records whose name contains the item, whatever the case
Casam(item, prods) ==
    {j \in DOMAIN prods : Contains(Lower(prods[j].nome_produto), Lower(item))}

\* the k-th smallest number of S
Enesimo(S, k) == CHOOSE x \in S : Cardinality({y \in S : y < x}) = k - 1

\* the results r are one group per item of L, in the order of L: the records
\* of P that match the item, in the order of P, or one not-found entry
\* with the text of the item
GruposEmOrdem(r, L, P) ==
    \E g \in [DOMAIN r -> DOMAIN L] :
        /\ \A k \in 1..(Len(r) - 1) : g[k] <= g[k + 1]
        /\ \A i \in DOMAIN L :
             LET ks == {k \in DOMAIN r : g[k] = i}
                 m == Casam(L[i], P)
             IN  IF m = {}
                 THEN \E k \in DOMAIN r :
                          ks = {k} /\ "erro" \in DOMAIN r[k] /\ r[k].produto = L[i]
                 ELSE /\ Cardinality(ks) = Cardinality(m)
                      /\ \A k \in ks :
                           LET pr == P[Enesimo(m, 1 + Cardinality({h \in ks : h < k}))]
                           IN  /\ "erro" \notin DOMAIN r[k]
                               /\ r[k].produto = pr.nome_produto
                               /\ r[k].coordenada_x = pr.coordenada_x
                               /\ r[k].coordenada_y = pr.coordenada_y

ObterFeito == ret.op = "obter" /\ ret.status = "success"

\* the products of the store with the name of the item, whatever the case
Exatos(it) == {j \in DOMAIN store : Lower(store[j].name) = Lower(it)}

Minimo(S) == CHOOSE x \in S : \A y \in S : x <= y

\* the places in items of the items that have (tem = TRUE) or lack a product
\* of their name
Lugares(items, tem) ==
    LET Test(i) == (Exatos(items[i]) # {}) = tem
    IN  SelectSeq([i \in DOMAIN items |-> i], Test)

\* C4 as claimed: for every item the results hold all the products that
\* match it, or one not-found entry with its text, the groups in the order
\* of the list; in obter_localizacoes_lista and in plan_route.
C4_Original ==
    /\ ObterFeito => GruposEmOrdem(ret.resultados, lista.conteudo, produtos.conteudo)
    /\ PlanFeito =>
         \A i \in DOMAIN out.items :
             IF Exatos(out.items[i]) = {}
             THEN Count(out.items[i], out.avisos) = Count(out.items[i], out.items)
             ELSE \A j \in Exatos(out.items[i]) : store[j] \in Membros(out.matched)

\* C4 as amended: obter_localizacoes_lista as claimed; plan_route finds, for
\* every item in the order of the list, the first product of the store whose
\* name is the item whatever the case (one product, also when several have
\* that name), or prints one warning with the text of the item.
C4_Amended ==
    /\ ObterFeito => GruposEmOrdem(ret.resultados, lista.conteudo, produtos.conteudo)
    /\ PlanFeito =>
         LET com == Lugares(out.items, TRUE)
             sem == Lugares(out.items, FALSE)
         IN  /\ out.matched = [k \in DOMAIN com |-> store[Minimo(Exatos(out.items[com[k]]))]]
             /\ out.avisos = [k \in DOMAIN sem |-> out.items[sem[k]]]

\* an item that is not found, and the item after it found
C4_Witness ==
    /\ PlanFeito
    /\ Len(out.items) >= 2
    /\ Exatos(out.items[1]) = {}
    /\ Exatos(out.items[2]) # {}
    /\ out.avisos = <<out.items[1]>>
    /\ Len(out.matched) = Len(out.items) - 1

FindFeito == out.op = "find_by_name"

\* C5 as claimed: find_by_name gives all the products whose name contains
\* the text, whatever the case.
C5_Original ==
    FindFeito =>
        Membros(out.val) =
            {store[j] : j \in {i \in DOMAIN store : Contains(Lower(store[i].name), Lower(out.name))}}

\* C5 as amended: find_by_name gives the first product, in the order of
\* insertion, whose name is the text whatever the case, and nothing when
\* there is none: one product at most.
C5_Amended ==
    FindFeito =>
        IF Exatos(out.name) = {}
        THEN out.val = <<>>
        ELSE out.val = <<store[Minimo(Exatos(out.name))]>>

\* two products have the name looked up, written in another case; the first
\* is returned
C5_Witness ==
    /\ FindFeito
    /\ Cardinality(Exatos(out.name)) = 2
    /\ Len(out.val) = 1
    /\ out.val[1].name # out.name

\* files are there and nothing of the list is in the catalog
NadaGerar == lista.existe /\ produtos.existe /\ EntradaGerar = <<>>

NadaMostrar == lista.existe /\ produtos.existe /\ EntradaMostrar = <<>>

\* C6 as claimed: when the items of the list resolve to nothing, an empty
\* route and no error.
C6_Original ==
    /\ ret.op = "gerar" /\ NadaGerar /\ lista.conteudo # <<>>
         => ret.status # "error" /\ ret.rota = <<>>
    /\ ret.op = "mostrar" /\ NadaMostrar /\ lista.conteudo # <<>>
         => ret.status # "error" /\ ret.rota = <<>>
    /\ PlanFeito /\ out.matched = <<>> => out.val = <<>>

\* C6 as amended: with nothing to route, plan_route returns an empty route;
\* gerar_rota_otimizada and mostrar_rota_visual return a result of status
\* error that holds no route.
C6_Amended ==
    /\ ret.op = "gerar" /\ NadaGerar => ret.status = "error" /\ ret.rota = <<>>
    /\ ret.op = "mostrar" /\ NadaMostrar => ret.status = "error" /\ ret.rota = <<>>
    /\ PlanFeito /\ out.matched = <<>> => out.val = <<>>

\* a list with an item, a catalog with a record, and no match
C6_Witness ==
    /\ ret.op = "gerar"
    /\ NadaGerar
    /\ lista.conteudo # <<>>
    /\ produtos.conteudo # <<>>
    /\ ret.status = "error"

\* the texts made of white space only, the empty text among them
Brancos == {t \in Textos : \A i \in DOMAIN t : t[i] = " "}

\* C7: guardar_lista_compras with an empty or white-space text returns an
\* error and leaves lista_compras.json as it was; carregar_lista_compras
\* returns what the file holds, so the list stored before the failed call.
C7_EmptyTextRejected ==
    [][/\ \A t \in Brancos :
            guardar(t) => /\ ret'.op = "guardar"
                          /\ ret'.status = "error"
                          /\ lista' = lista
       /\ carregar_lista_compras /\ lista.existe
            => /\ ret'.status = "success"
               /\ ret'.itens = lista.conteudo
               /\ lista' = lista]_vars

\* a list is stored and a call has just been refused
C7_Witness ==
    /\ ret.op = "guardar"
    /\ ret.status = "error"
    /\ lista.existe
    /\ lista.conteudo # <<>>

IsPrefix(a, b) == Len(a) <= Len(b) /\ SubSeq(b, 1, Len(a)) = a

\* what is done for every stop, in order
Passos == <<{"directions"}, {"move"}, {"sweep"}, {"add", "nothing"}>>

\* the events are, stop after stop of the route, directions, move, sweep
\* and the update of the cart, which adds when the sweep just before
\* returned true and only then
OrdemEventos ==
    \A i \in DOMAIN eventos :
        LET k == ((i - 1) \div 4) + 1
            j == ((i - 1) % 4) + 1
        IN  /\ k <= Len(route)
            /\ eventos[i].uid = route[k].product.uid
            /\ eventos[i].ev \in Passos[j]
            /\ j = 4 => (eventos[i].ev = "add" <=> eventos[i - 1].val = TRUE)

\* a step that changes the cart appends the product whose sweep, the event
\* just before, returned true
CartCresce ==
    /\ IsPrefix(cart, cart')
    /\ cart' # cart =>
         /\ eventos # <<>>
         /\ eventos[Len(eventos)].ev = "sweep"
         /\ eventos[Len(eventos)].val = TRUE
         /\ cart' = Append(cart, eventos[Len(eventos)].uid)
         /\ eventos'[Len(eventos')].ev = "add"
    /\ (pc = "cart" /\ ~found) => cart' = cart

\* C8: in run_session the cart only grows, a product is added only by the
\* step that follows a sweep of that product that returned true, and the
\* steps of every stop are directions, move, sweep, cart update.
C8_CartAfterSweep == []OrdemEventos /\ [][CartCresce]_vars

\* a session of three stops is over, each product confirmed and in the cart
C8_Witness ==
    /\ pc = "done"
    /\ Len(route) = 3
    /\ Len(eventos) = 12
    /\ cart = [k \in 1..3 |-> route[k].product.uid]

ScanFeito == out.op = "scan"

\* every product of the store is within the range of the reader
Cobre == \A i \in DOMAIN store :
             distance_sq(out.position, store[i].position) <= out.range * out.range

\* C9 as claimed: without noise and with every product in range, scan
\* returns the whole catalog, closest first, whatever random.random()
\* gives; with a noise probability of 1 it returns nothing.
C9_Original ==
    ScanFeito =>
        /\ out.noise_prob = 0 /\ Cobre =>
             /\ Len(out.val) = Len(store)
             /\ {out.val[k].uid : k \in DOMAIN out.val} = {store[i].uid : i \in DOMAIN store}
             /\ \A k \in 1..(Len(out.val) - 1) : out.val[k].d2 <= out.val[k + 1].d2
        /\ out.noise_prob = 20 => out.val = <<>>

\* C9 as amended: without noise and with every product in range, scan
\* returns, in the order in which the products were added to the store,
\* the products for which random.random() gave more than 0; with a noise
\* probability of 1 it returns nothing.
C9_Amended ==
    ScanFeito =>
        /\ out.noise_prob = 0 /\ Cobre =>
             LET Le(i) == out.draws[i] > 0
                 lidos == SelectSeq([i \in DOMAIN store |-> i], Le)
             IN  out.val = [k \in DOMAIN lidos |->
                               [uid |-> store[lidos[k]].uid,
                                d2 |-> distance_sq(out.position, store[lidos[k]].position)]]
        /\ out.noise_prob = 20 => out.val = <<>>

\* the whole catalog is read, and the first product read is not the closest
C9_Witness ==
    /\ ScanFeito
    /\ out.noise_prob = 0
    /\ Cobre
    /\ Len(store) = 3
    /\ Len(out.val) = 3
    /\ out.val[1].d2 > out.val[2].d2

SweepFeito == out.op = "sweep"

\* C10: sweep is true exactly when the product is no farther from the
\* device than the sensitivity and the device is at the shelf level of the
\* product; a call of it changes neither the store nor a cart.
C10_Sweep ==
    /\ [](SweepFeito =>
            /\ out.val = TRUE <=>
                 /\ distance_sq(out.product.position, out.device_pos)
                      <= out.sensitivity * out.sensitivity
                 /\ out.device_height = out.product.shelf_level
            /\ out.device_height # out.product.shelf_level => out.val = FALSE
            /\ distance_sq(out.product.position, out.device_pos)
                 > out.sensitivity * out.sensitivity => out.val = FALSE)
    /\ [][out'.op = "sweep" => store' = store /\ cart' = cart]_vars

\* the device is at the product, at another height: no confirmation
C10_Witness ==
    /\ SweepFeito
    /\ out.device_pos = out.product.position
    /\ out.device_height # out.product.shelf_level
    /\ out.val = FALSE


DirecaoFeita == out.op \in {"direction_from_vector", "direcao"}

\* the labels of the sectors centred on 0, 90, 180 and -90 degrees
Rotulos ==
    IF out.op = "direction_from_vector"
    THEN [s0 |-> "direita", s90 |-> "frente", s180 |-> "esquerda", sm90 |-> "tras"]
    ELSE [s0 |-> "siga em frente", s90 |-> "vire a esquerda",
          s180 |-> "inverta a direcao", sm90 |-> "vire a direita"]

\* both components below 0.3 m
QuaseZero(dx, dy) == dx * dx < 9 /\ dy * dy < 9

\* a vector that is not (0, 0) gets the label of the sector of its angle;
\* the boundaries at 45 and -45 degrees belong to the sector of 0, the one
\* at 135 to the sector of 90, the one at -135 to the sector of -90
RotuloDoSetor(dx, dy, val) ==
    /\ dx > 0 /\ dy * dy <= dx * dx => val = Rotulos.s0
    /\ dy > 0 /\ (dx * dx < dy * dy \/ dx = 0 - dy) => val = Rotulos.s90
    /\ dx < 0 /\ dy * dy < dx * dx => val = Rotulos.s180
    /\ dy < 0 /\ (dx * dx < dy * dy \/ dx = dy) => val = Rotulos.sm90

\* C11 as claimed: in direction_from_vector and in the classifier of
\* mostrar_rota_visual a vector with both components below 0.3 gets a label
\* of its own, which is none of the four sector labels, and every other
\* vector the label of the sector of its angle, a boundary angle always in
\* the same sector.
C11_Original ==
    DirecaoFeita =>
        IF QuaseZero(out.dx, out.dy)
        THEN out.val \notin {Rotulos.s0, Rotulos.s90, Rotulos.s180, Rotulos.sm90}
        ELSE RotuloDoSetor(out.dx, out.dy, out.val)

\* C11 as amended: direction_from_vector gives 'em frente', none of its
\* sector labels, to a vector with both components below 0.3, and to every
\* other vector the label of the sector of its angle; the classifier of
\* mostrar_rota_visual has no such case and gives every vector, small or
\* not, the label of the sector of its angle, (0, 0) having the angle 0.
C11_Amended ==
    /\ out.op = "direction_from_vector" =>
          IF QuaseZero(out.dx, out.dy)
          THEN /\ out.val = "em frente"
               /\ out.val \notin {Rotulos.s0, Rotulos.s90, Rotulos.s180, Rotulos.sm90}
          ELSE RotuloDoSetor(out.dx, out.dy, out.val)
    /\ out.op = "direcao" =>
          IF out.dx = 0 /\ out.dy = 0
          THEN out.val = Rotulos.s0
          ELSE RotuloDoSetor(out.dx, out.dy, out.val)

\* a vector on the boundary at -135 degrees, 0.4 m long on each axis
C11_Witness ==
    /\ out.op = "direction_from_vector"
    /\ out.dx = 0 - 4
    /\ out.dy = 0 - 4
    /\ out.val = "tras"


PassosFeitos == out.op = "meters_to_steps"

\* C12: meters_to_steps with the step of 0.75 m does not decrease when the
\* length grows, the lengths that are half-way between two numbers of
\* steps included, and is 1 at least, for the length 0 too.
C12_Monotone ==
    PassosFeitos =>
        /\ out.m1 <= out.m2 => out.s1 <= out.s2
        /\ out.s1 >= 1
        /\ out.s2 >= 1

\* 1.125 m is 1.5 steps and 1.875 m is 2.5 steps: both round to 2
C12_Witness ==
    /\ PassosFeitos
    /\ out.m1 = 9
    /\ out.m2 = 15
    /\ out.s1 = 2
    /\ out.s2 = 2


\* a step taken inside the loop leaves it with the route as it is, or adds
\* to the route one product whose name was not visited yet
IteracaoAvanca ==
    laco.pc = "while" =>
        \/ laco'.pc = "done" /\ laco'.rota = laco.rota
        \/ /\ laco'.pc = "while"
           /\ Len(laco'.rota) = Len(laco.rota) + 1
           /\ SubSeq(laco'.rota, 1, Len(laco.rota)) = laco.rota
           /\ LacoNomes[laco'.rota[Len(laco'.rota)]] \notin laco.visitados
           /\ laco'.visitados = laco.visitados \cup {LacoNomes[laco'.rota[Len(laco'.rota)]]}

\* C13: the nearest-neighbour loop of gerar_rota_otimizada and of
\* mostrar_rota_visual ends for every finite list of matched products,
\* lists with several entries of the same name included: every iteration
\* adds one name not yet visited to the route or leaves the loop.
C13_Termination == <>(laco.pc = "done") /\ [][IteracaoAvanca]_vars

\* the loop was left by break: three entries, two names, two stops
C13_Witness ==
    /\ laco.pc = "done"
    /\ Len(laco.produtos) = 3
    /\ Cardinality(laco.visitados) = 2
    /\ Len(laco.rota) = 2


\* C14 as claimed: when guardar_lista_compras returns success, the list it
\* stored has one item at least, whatever the text.
C14_Original ==
    ret.op = "guardar" /\ ret.status = "success" => lista.conteudo # <<>>

=============================================================================
